---------------------------- MODULE Spec2Model ----------------------------
(***************************************************************************)
(* A model of fscmp's comparison engine (src/src/cmp/mod.rs): FSCmp::dirs, *)
(* the recursive, data-parallel comparison of two directory trees with the *)
(* mutex-guarded pair of inode maps, and FSCmp::contents, the chunked and  *)
(* sampled comparison of two files.                                        *)
(*                                                                         *)
(* Paths are sequences of one-character names; a file's bytes are modelled *)
(* sparsely as the set of offsets that hold a 1, every other byte being 0. *)
(* u64/usize arithmetic is modelled on the naturals: every size used here  *)
(* is below 2^31, so no operation of the code wraps.                       *)
(***************************************************************************)
EXTENDS Integers, Sequences, FiniteSets, TLC

VARIABLES
    tree,        \* <<first, second>>: the two file systems being compared
    cfg,         \* FSCmp's configuration: ignored_dirs, full_compare_limit
    tasks,       \* dirs(): one entry_eq call per relative path
    inode_maps,  \* FSCmp::inode_maps, <<first_map, second_map>>
    mutex,       \* the Mutex around inode_maps: the set of tasks holding it
    cfiles,      \* contents(): the two EntryInfo::file entries and their bytes
    csize,       \* contents(): the size argument
    cpc,         \* contents(): "start", "par" (chunks in flight), "done"
    chunks,      \* contents(): per chunk index, the chunk closure's result
    cresult,     \* contents(): the returned Comparison
    calc,        \* calc_leap / calc_chunk_count: the arguments and the values returned
    rc           \* a RangeChunks iterator: its fields and what next() has returned

vars == <<tree, cfg, tasks, inode_maps, mutex, cfiles, csize, cpc, chunks, cresult, calc, rc>>

----------------------------------------------------------------------------
(* Constants of the program *)

BLOCK_SIZE == 512
BUF_SIZE == 256 * 1024
BUF_SIZE_U64 == BUF_SIZE

S_IFMT == 61440
S_IFIFO == 4096
S_IFCHR == 8192
S_IFDIR == 16384
S_IFBLK == 24576
S_IFREG == 32768
S_IFLNK == 40960
S_IFSOCK == 49152

(* Bounds of the model *)

\* libc::PATH_MAX scaled to the one-character names of the model
PATH_MAX == 3
\* file sizes range over 0 .. (MaxChunks + 1) * BUF_SIZE - 1
MaxChunks == 2
\* arguments of calc_leap and calc_chunk_count: size, limit, chunk_size
MaxCalcSize == 150
MaxCalcLimit == 51
MaxCalcChunk == 3
\* RangeChunks: start, end, size and leap of the iterator, calls of next()
MaxRcStart == 2
MaxRcEnd == 30
MaxRcSize == 8
MaxRcLeap == 12
MaxRcCalls == 6

----------------------------------------------------------------------------
(* Helpers *)

min(a, b) == IF a < b THEN a ELSE b
max(a, b) == IF a > b THEN a ELSE b

MinOf(S) == CHOOSE x \in S : \A y \in S : x <= y

\* Option<T>: None is the empty sequence, Some(x) the one-element sequence
None == <<>>
Some(x) == <<x>>

----------------------------------------------------------------------------
(* Comparison and Diff (src/src/cmp/comparison.rs).  One record shape for   *)
(* every variant: n1, n2 carry numeric payloads, p1, p2 the optional paths *)
(* of Diff::Inodes, s1, s2 the name sets of Diff::DirContents, b1, b2 the  *)
(* blocks of Diff::Contents; kind "None" marks a result not yet produced.  *)

NoDiff ==
    [tag |-> "", n1 |-> 0, n2 |-> 0, p1 |-> None, p2 |-> None,
     s1 |-> {}, s2 |-> {}, b1 |-> {}, b2 |-> {}]

Pending == [kind |-> "None", diff |-> NoDiff, path |-> None]
Equal == [kind |-> "Equal", diff |-> NoDiff, path |-> None]
\* Err(_) of Fallible<Comparison>: an operational failure
Err == [kind |-> "Err", diff |-> NoDiff, path |-> None]

DiffNum(tag, a, b) == [NoDiff EXCEPT !.tag = tag, !.n1 = a, !.n2 = b]
DiffInodes(a, b) == [NoDiff EXCEPT !.tag = "Inodes", !.p1 = a, !.p2 = b]
DiffDirContents(a, b) == [NoDiff EXCEPT !.tag = "DirContents", !.s1 = a, !.s2 = b]
DiffContents(lba, a, b) ==
    [NoDiff EXCEPT !.tag = "Contents", !.n1 = lba, !.b1 = a, !.b2 = b]

\* mutation: the prefix consumed by reopened handles is left out of the path
unequal_PathOnly(diff, first, second) ==
    [kind |-> "Unequal",
     diff |-> diff,
     path |-> IF first.path = second.path THEN Some(first.path) ELSE None]
\* FSCmp::unequal: the path is reported only when both sides carry the same one
unequal(diff, first, second) ==
    [kind |-> "Unequal",
     diff |-> diff,
     path |-> IF first.path = second.path
              THEN Some(first.parent_path \o first.path)
              ELSE None]

----------------------------------------------------------------------------
(* Content comparison: FSCmp::contents_eq and its helpers *)

calc_chunk_count(limit, chunk_size) == max(limit \div chunk_size, 1)

\* mutation: the limit's chunks are counted rounding down
calc_leap_FloorDiv(size, limit, chunk_size) ==
    IF limit < chunk_size
    THEN limit
    ELSE max(chunk_size, size \div (limit \div chunk_size))
calc_leap(size, limit, chunk_size) ==
    IF limit < chunk_size
    THEN limit
    ELSE max(chunk_size, size \div ((limit + chunk_size - 1) \div chunk_size))

\* full_compare_limit.map(|limit| min(limit, size)).unwrap_or(size)
EffectiveLimit(full_compare_limit, size) ==
    IF full_compare_limit = None THEN size ELSE min(full_compare_limit[1], size)

\* mutation: the end of the range is not clamped to the size
ChunkRangeOf_NoClamp(i, leap, size, chunk_size) ==
    [start |-> i * leap, end |-> i * leap + chunk_size]
\* the range the i-th chunk closure reads, for chunks of chunk_size bytes:
\* (i * leap)..min(size, i * leap + chunk_size)
ChunkRangeOf(i, leap, size, chunk_size) ==
    [start |-> i * leap, end |-> min(size, i * leap + chunk_size)]

\* the range the i-th chunk closure reads: (i * leap)..min(size, i * leap + BUF_SIZE)
ChunkRange(i, leap, size) == ChunkRangeOf(i, leap, size, BUF_SIZE_U64)

\* the bytes read_exact_at puts into data[..(end - start)]: offsets relative to start
ReadChunk(data, chunk) ==
    {d - chunk.start : d \in {x \in data : chunk.start <= x /\ x < chunk.end}}

\* get_diff_index: index of the first position where the two slices differ
get_diff_index(first, second) ==
    MinOf((first \ second) \cup (second \ first))

\* SliceRange::subslice on a slice of length len: elements start..min(start+size, len)
subslice(slice, len, start, size) ==
    {d - start : d \in {x \in slice : start <= x /\ x < min(start + size, len)}}

\* mutants of ContentsLba: the chunk's start forgotten; a byte offset instead
ContentsLba_NoChunkStart(chunk_start, diff_index) == diff_index \div BLOCK_SIZE
ContentsLba_ByteOffset(chunk_start, diff_index) ==
    ((chunk_start + diff_index) \div BLOCK_SIZE) * BLOCK_SIZE

\* the block index put into Diff::Contents
ContentsLba(chunk_start, diff_index) == (chunk_start + diff_index) \div BLOCK_SIZE

\* the body of the chunk closure of contents_eq
CompareChunk(chunk, data1, data2, first, second) ==
    LET chunked_data1 == ReadChunk(data1, chunk)
        chunked_data2 == ReadChunk(data2, chunk)
        len == chunk.end - chunk.start
    IN  IF chunked_data1 = chunked_data2
        THEN Equal
        ELSE LET diff_index == get_diff_index(chunked_data1, chunked_data2)
                 local_lba == (diff_index \div BLOCK_SIZE) * BLOCK_SIZE
                 lba == ContentsLba(chunk.start, diff_index)
             IN  unequal(DiffContents(lba,
                                      subslice(chunked_data1, len, local_lba, BLOCK_SIZE),
                                      subslice(chunked_data2, len, local_lba, BLOCK_SIZE)),
                         first, second)

\* the chunk indices contents_eq iterates over, and each one's range
ChunkIndices(full_compare_limit, size) ==
    0 .. (calc_chunk_count(EffectiveLimit(full_compare_limit, size), BUF_SIZE_U64) - 1)

ChunkOf(i, full_compare_limit, size) ==
    ChunkRange(i, calc_leap(size, EffectiveLimit(full_compare_limit, size), BUF_SIZE_U64), size)


----------------------------------------------------------------------------
(* The file systems.  A side is [links, nodes, faulty]: links maps every    *)
(* absolute path that exists (the root is <<>>) to an inode number, nodes  *)
(* maps each inode number to its stat fields; hard links are paths sharing *)
(* an inode.  faulty holds the inodes whose content cannot be read: a      *)
(* directory that cannot be listed, a symlink that cannot be read, a file  *)
(* whose read fails on the block at offset BUF_SIZE.                       *)

Root == <<>>
PF == <<"f">>
PA == <<"a">>
PAF == <<"a", "f">>
PAB == <<"a", "b">>
PABF == <<"a", "b", "f">>
PN == <<"n">>
PM == <<"m">>
PABN == <<"a", "b", "n">>
PI == <<"i">>
PIF == <<"i", "f">>
PABI == <<"a", "b", "i">>

AllPaths == {Root, PF, PA, PAF, PAB, PABF, PN, PM, PABN, PI, PIF, PABI}

DirInos == {1, 2, 3, 4}
LeafInos == {11, 12, 13, 14, 15, 16}
Inos == DirInos \cup LeafInos

\* size of the regular files of the trees: two full chunks and a one-block tail
FSize == 2 * BUF_SIZE + BLOCK_SIZE

Node(type, perm, uid, gid, nlink, size, rdev, data, target) ==
    [st_mode |-> type + perm, st_uid |-> uid, st_gid |-> gid, st_nlink |-> nlink,
     st_size |-> size, st_rdev |-> rdev, data |-> data, target |-> target]

Dir0 == Node(S_IFDIR, 493, 0, 0, 1, 0, 0, {}, 0)
Reg0 == Node(S_IFREG, 420, 0, 0, 1, FSize, 0, {}, 0)
Reg1 == [Reg0 EXCEPT !.st_mode = S_IFREG + 292]

\* what one leaf can be: every file type, and every field a handler compares
LeafVariants ==
    {Reg0, Reg1,
     [Reg0 EXCEPT !.st_uid = 1],
     [Reg0 EXCEPT !.st_gid = 1],
     [Reg0 EXCEPT !.st_nlink = 2],
     [Reg0 EXCEPT !.st_uid = 1, !.st_nlink = 2],
     [Reg0 EXCEPT !.st_gid = 1, !.st_nlink = 2],
     [Reg0 EXCEPT !.st_uid = 1, !.st_gid = 1],
     [Reg0 EXCEPT !.st_size = 0],
     [Reg0 EXCEPT !.data = {BLOCK_SIZE + 1}],
     [Reg0 EXCEPT !.data = {BUF_SIZE + 1}],
     [Reg0 EXCEPT !.data = {2 * BUF_SIZE + 1}],
     Node(S_IFLNK, 511, 0, 0, 1, 1, 0, {}, 0),
     Node(S_IFLNK, 511, 0, 0, 1, 1, 0, {}, 1),
     Node(S_IFBLK, 420, 0, 0, 1, 0, 0, {}, 0),
     Node(S_IFBLK, 420, 0, 0, 1, 0, 1, {}, 0),
     Node(S_IFCHR, 420, 0, 0, 1, 0, 0, {}, 0),
     Node(S_IFCHR, 420, 0, 0, 1, 0, 1, {}, 0),
     Node(S_IFIFO, 420, 0, 0, 1, 0, 0, {}, 0),
     Node(S_IFSOCK, 420, 0, 0, 1, 0, 0, {}, 0)}

NodesBase == [i \in Inos |-> IF i \in DirInos THEN Dir0 ELSE Reg0]

\* the skeleton: f, a/, a/f, a/b/, a/b/f; pat gives the inodes of the three files
BaseLinks(pat) ==
    (Root :> 1) @@ (PA :> 2) @@ (PAB :> 3)
    @@ (PF :> pat[1]) @@ (PAF :> pat[2]) @@ (PABF :> pat[3])

Side(links, nodes) == [links |-> links, nodes |-> nodes, faulty |-> {}]

BaseSide == Side(BaseLinks(<<11, 12, 13>>), NodesBase)

(* Family H: hard links.  Each side links the three files in its own way;  *)
(* the inodes' fields come from one table, the link count is either the    *)
(* number of links inside the tree or padded by links from outside it.     *)
LinkPatterns == {<<11, 12, 13>>, <<11, 11, 13>>, <<11, 12, 11>>, <<11, 12, 12>>, <<11, 11, 11>>}

LinksInTree(pat, i) == Cardinality({k \in 1..3 : pat[k] = i})

SideH(pat, var, padded) ==
    Side(BaseLinks(pat),
         [i \in Inos |->
            IF i \in {11, 12, 13}
            THEN [var[i] EXCEPT !.st_nlink =
                     IF padded THEN 3 ELSE max(1, LinksInTree(pat, i))]
            ELSE NodesBase[i]])

FamilyH ==
    {<<SideH(pa, var, padded), SideH(pb, var, padded)>> :
        pa \in LinkPatterns, pb \in LinkPatterns,
        var \in [{11, 12, 13} -> {Reg0, Reg1}], padded \in BOOLEAN}

(* Family T: file types and metadata.  The file f is any leaf variant on   *)
(* each side; or the second side is the base tree with up to two inodes    *)
(* (directories, the root, the deep file) changed in one field.            *)
SideT(v) == Side(BaseLinks(<<11, 12, 13>>), [NodesBase EXCEPT ![11] = v])

FieldEdits(n) ==
    {[n EXCEPT !.st_mode = n.st_mode - 128],
     [n EXCEPT !.st_uid = 1],
     [n EXCEPT !.st_gid = 1],
     [n EXCEPT !.st_nlink = n.st_nlink + 1]}

Edits ==
    {<<i, e>> : i \in {1, 2, 3}, e \in FieldEdits(Dir0)}
    \cup {<<13, e>> : e \in FieldEdits(Reg0) \cup {[Reg0 EXCEPT !.data = {0}]}}

ApplyEdit(side, ed) == [side EXCEPT !.nodes[ed[1]] = ed[2]]

FamilyT ==
    {<<SideT(va), SideT(vb)>> : va \in LeafVariants, vb \in LeafVariants}
    \cup {<<BaseSide, ApplyEdit(ApplyEdit(BaseSide, e1), e2)>> : e1 \in Edits, e2 \in Edits}

(* Family P: presence.  A side is the base tree, or the base tree with one *)
(* more entry: a file n or m, or an entry named i (a file at the root or   *)
(* in a/b, or a directory holding a file), with bytes 0 or 1 at offset 0.  *)
SidesP ==
    {BaseSide}
    \cup {Side((p :> 14) @@ BaseLinks(<<11, 12, 13>>), NodesBase) : p \in {PN, PM, PABN}}
    \cup {Side((p :> 15) @@ BaseLinks(<<11, 12, 13>>), [NodesBase EXCEPT ![15].data = d]) :
            p \in {PI, PABI}, d \in {{}, {0}}}
    \cup {Side((PI :> 4) @@ (PIF :> 16) @@ BaseLinks(<<11, 12, 13>>),
               [NodesBase EXCEPT ![16].data = d]) : d \in {{}, {0}}}

FamilyP == SidesP \X SidesP

(* Family F: failures.  Both sides are the base tree, the deep file being  *)
(* a regular file or a symlink; one inode of one side may differ in its    *)
(* bytes, and some inodes of one side or of both cannot be read.           *)
SidesF ==
    {Side(BaseLinks(<<11, 12, 13>>), [NodesBase EXCEPT ![13] = v]) :
        v \in {Reg0, Node(S_IFLNK, 511, 0, 0, 1, 1, 0, {}, 0)}}

FaultySets == {{2}, {3}, {12}, {13}, {11, 13}}

FamilyF ==
    {<<[a EXCEPT !.faulty = fa], [a EXCEPT !.nodes[i].data = d, !.faulty = fb]>> :
        a \in SidesF, i \in {11, 12}, d \in {{}, {BLOCK_SIZE + 1}},
        fa \in {{}} \cup FaultySets, fb \in FaultySets}
    \cup {<<[a EXCEPT !.faulty = fa], a>> : a \in SidesF, fa \in FaultySets}

----------------------------------------------------------------------------
(* EntryInfo and the directory handles *)

\* as_os_str().len() of a path of one-character names joined by '/'
PathStrLen(p) == IF p = <<>> THEN 0 ELSE 2 * Len(p) - 1

\* EntryInfo: parent is the directory the handle is open on (its absolute
\* path), path is relative to that handle, ino stands for the metadata
\* snapshot (the fields are read from the side's inode table)
NoEntry == [parent |-> <<>>, parent_path |-> <<>>, path |-> <<>>, ino |-> 0]

\* EntryInfo::dir
RootEntry(side) ==
    [parent |-> Root, parent_path |-> <<>>, path |-> <<".">>, ino |-> tree[side].links[Root]]

\* the absolute path a handle-relative operation on the entry resolves to
AbsPath(e) == e.parent \o (IF e.path = <<".">> THEN <<>> ELSE e.path)

stat(side, e) == tree[side].nodes[e.ino]

\* child_entry: the path handed to sub_dir when a new handle is opened
SubDirArg(self, name) ==
    LET path == IF self.path # <<>> /\ self.path[1] = "."
                THEN <<name>>
                ELSE self.path \o <<name>>
    IN  IF PathStrLen(path) > PATH_MAX THEN Some(SubSeq(path, 1, Len(path) - 1)) ELSE None

\* mutation: the child is always resolved through the parent's handle
child_entry_NoReopen(side, self, name) ==
    LET path == IF self.path # <<>> /\ self.path[1] = "."
                THEN <<name>>
                ELSE self.path \o <<name>>
    IN  [parent |-> self.parent,
         parent_path |-> self.parent_path,
         path |-> path,
         ino |-> tree[side].links[self.parent \o path]]
\* EntryInfo::child_entry
child_entry(side, self, name) ==
    LET path == IF self.path # <<>> /\ self.path[1] = "."
                THEN <<name>>
                ELSE self.path \o <<name>>
    IN  IF PathStrLen(path) > PATH_MAX
        THEN LET path_parent == SubSeq(path, 1, Len(path) - 1)
                 dir == self.parent \o path_parent
                 file_name == <<path[Len(path)]>>
             IN  [parent |-> dir,
                  parent_path |-> self.parent_path \o path_parent,
                  path |-> file_name,
                  ino |-> tree[side].links[dir \o file_name]]
        ELSE [parent |-> self.parent,
              parent_path |-> self.parent_path,
              path |-> path,
              ino |-> tree[side].links[self.parent \o path]]

\* FSCmp::entry_filter_map: a listed name is dropped when it is ignored
\* mutation: no name is filtered out
entry_filter_map_KeepAll(name) == Some(name)
entry_filter_map(name) == IF name \in cfg.ignored_dirs THEN None ELSE Some(name)

\* openat::Dir::list_dir fails on the entry
ListFails(side, entry) == entry.ino \in tree[side].faulty

\* openat::Dir::read_link fails on the entry
ReadLinkFails(side, entry) == entry.ino \in tree[side].faulty

\* read_exact_at fails on a chunk that holds the unreadable block
ReadFails(side, entry, chunk) ==
    entry.ino \in tree[side].faulty /\ chunk.start <= BUF_SIZE /\ BUF_SIZE < chunk.end

\* FSCmp::list_dir: the names under the entry, filtered
list_dir(side, entry) ==
    LET listed == {p[Len(p)] : p \in {q \in DOMAIN tree[side].links :
                        /\ Len(q) = Len(AbsPath(entry)) + 1
                        /\ SubSeq(q, 1, Len(q) - 1) = AbsPath(entry)}}
    IN  {n \in listed : entry_filter_map(n) # None}

----------------------------------------------------------------------------
(* The identity check of entry_eq on the two inode maps *)

\* entry_get: the recorded path, if any
entry_get(map, ino) == IF ino \in DOMAIN map THEN Some(map[ino]) ELSE None

\* VacantEntry insertion through or_insert_with
MapInsert(map, ino, path) == (ino :> path) @@ map

\* Mutex::lock can be taken when nobody holds it
\* mutation: the lock is granted while another task holds it
MutexAvailable_Always(m) == TRUE
MutexAvailable(m) == m = {}

\* the outcome of the lookup: "mismatch", "new" or "duplicate"
\* mutation: a pair seen before is rejected instead of skipped
IdentityOutcome_NoDuplicate(first_value, second_value) ==
    IF first_value = None /\ second_value = None THEN "new" ELSE "mismatch"
\* mutation: two recorded inodes are a duplicate whatever their recorded paths
IdentityOutcome_AnySeen(first_value, second_value) ==
    IF first_value = None /\ second_value = None THEN "new"
    ELSE IF first_value = None \/ second_value = None THEN "mismatch"
    ELSE "duplicate"
IdentityOutcome(first_value, second_value) ==
    IF first_value # second_value THEN "mismatch"
    ELSE IF first_value = None THEN "new"
    ELSE "duplicate"

----------------------------------------------------------------------------
(* Metadata and the type handlers *)

\* compare_metadata_field! on one stat field
FieldDiff(tag, a, b, first, second, rest) ==
    IF a # b THEN unequal(DiffNum(tag, a, b), first, second) ELSE rest

\* whether the mode/owner/group comparison applies: the roots are exempt
ComparesPermissions(first) == first.path # <<".">>

\* the scalar checks of entry_eq, in the order of the code; Equal when all
\* pass.  first is an entry of side s1, second of side s2
MetadataCheckOn(s1, s2, first, second) ==
    LET a == stat(s1, first)
        b == stat(s2, second)
        nlinks == FieldDiff("Nlinks", a.st_nlink, b.st_nlink, first, second, Equal)
    IN  IF ComparesPermissions(first)
        THEN FieldDiff("Modes", a.st_mode, b.st_mode, first, second,
             FieldDiff("Uids", a.st_uid, b.st_uid, first, second,
             FieldDiff("Gids", a.st_gid, b.st_gid, first, second, nlinks)))
        ELSE nlinks

\* mutation: the link count is compared right after the mode
MetadataCheck_NlinksSecond(first, second) ==
    LET a == stat(1, first)
        b == stat(2, second)
        rest == FieldDiff("Uids", a.st_uid, b.st_uid, first, second,
                FieldDiff("Gids", a.st_gid, b.st_gid, first, second, Equal))
    IN  IF ComparesPermissions(first)
        THEN FieldDiff("Modes", a.st_mode, b.st_mode, first, second,
             FieldDiff("Nlinks", a.st_nlink, b.st_nlink, first, second, rest))
        ELSE FieldDiff("Nlinks", a.st_nlink, b.st_nlink, first, second, Equal)
\* the scalar checks of entry_eq in dirs(first, second)
MetadataCheck(first, second) == MetadataCheckOn(1, 2, first, second)

\* first.metadata.stat().st_mode & S_IFMT (permission bits are below 4096)
FileTypeOn(s1, first) == (stat(s1, first).st_mode \div 4096) * 4096
FileType(first) == FileTypeOn(1, first)

\* find_any(|r| r != Ok(Equal)).unwrap_or(Ok(Equal)) over item results: it
\* returns once no item is running and either every item has finished or one
\* has finished with a result that is not Equal; items not begun are dropped
FindAnyReady(pcs, results) ==
    \/ \A c \in DOMAIN pcs : pcs[c] = "done"
    \/ /\ \E c \in DOMAIN pcs : pcs[c] = "done" /\ results[c] # Equal
       /\ \A c \in DOMAIN pcs : pcs[c] \in {"done", "start", "missing"}

\* mutation: only an Unequal item is found, a failed one is passed over
FindAnyResults_OnlyUnequal(pcs, results) ==
    LET found == {results[c] : c \in {d \in DOMAIN pcs :
                                          pcs[d] = "done" /\ results[d].kind = "Unequal"}}
    IN  IF found = {} THEN {Equal} ELSE found
FindAnyResults(pcs, results) ==
    LET found == {results[c] : c \in {d \in DOMAIN pcs : pcs[d] = "done" /\ results[d] # Equal}}
    IN  IF found = {} THEN {Equal} ELSE found

\* the chunk closure of contents_eq: both reads, then the comparison
ChunkResult(s1, s2, chunk, first, second, data1, data2) ==
    IF ReadFails(s1, first, chunk) \/ ReadFails(s2, second, chunk)
    THEN Err
    ELSE CompareChunk(chunk, data1, data2, first, second)

\* the results contents_eq can return: what find_any can return over the
\* chunk closures, any failed or unequal chunk, or Equal if there is none
contents_eqOn(s1, s2, first, second, size, data1, data2) ==
    IF size = 0 THEN {Equal}
    ELSE LET idx == ChunkIndices(cfg.full_compare_limit, size)
             results == [i \in idx |->
                           ChunkResult(s1, s2, ChunkOf(i, cfg.full_compare_limit, size),
                                       first, second, data1, data2)]
         IN  FindAnyResults([i \in idx |-> "done"], results)

file_eqOn(s1, s2, first, second) ==
    LET a == stat(s1, first)
        b == stat(s2, second)
    IN  IF a.st_size # b.st_size
        THEN {unequal(DiffNum("Sizes", a.st_size, b.st_size), first, second)}
        ELSE contents_eqOn(s1, s2, first, second, a.st_size, a.data, b.data)

symlink_eqOn(s1, s2, first, second) ==
    LET first_target == stat(s1, first).target
        second_target == stat(s2, second).target
    IN  IF ReadLinkFails(s1, first) \/ ReadLinkFails(s2, second)
        THEN {Err}
        ELSE {FieldDiff("LinkTarget", first_target, second_target, first, second, Equal)}

char_device_eqOn(s1, s2, first, second) ==
    {FieldDiff("DeviceTypes", stat(s1, first).st_rdev, stat(s2, second).st_rdev,
               first, second, Equal)}

\* the dispatch of entry_eq for everything but directories
LeafHandlerOn(s1, s2, first, second) ==
    CASE FileTypeOn(s1, first) = S_IFREG -> file_eqOn(s1, s2, first, second)
      [] FileTypeOn(s1, first) = S_IFLNK -> symlink_eqOn(s1, s2, first, second)
      [] FileTypeOn(s1, first) = S_IFBLK -> char_device_eqOn(s1, s2, first, second)
      [] FileTypeOn(s1, first) = S_IFCHR -> char_device_eqOn(s1, s2, first, second)
      [] FileTypeOn(s1, first) = S_IFIFO -> {Equal}
      [] FileTypeOn(s1, first) = S_IFSOCK -> {Equal}

\* the handlers in dirs(first, second): first is of side 1, second of side 2
contents_eq(first, second, size, data1, data2) ==
    contents_eqOn(1, 2, first, second, size, data1, data2)
file_eq(first, second) == file_eqOn(1, 2, first, second)
symlink_eq(first, second) == symlink_eqOn(1, 2, first, second)
char_device_eq(first, second) == char_device_eqOn(1, 2, first, second)
block_device_eq(first, second) == char_device_eq(first, second)
fifo_eq(first, second) == {Equal}
socket_eq(first, second) == {Equal}

\* the dispatch of entry_eq for everything but directories
LeafHandler(first, second) ==
    CASE FileType(first) = S_IFREG -> file_eq(first, second)
      [] FileType(first) = S_IFLNK -> symlink_eq(first, second)
      [] FileType(first) = S_IFBLK -> block_device_eq(first, second)
      [] FileType(first) = S_IFCHR -> char_device_eq(first, second)
      [] FileType(first) = S_IFIFO -> fifo_eq(first, second)
      [] FileType(first) = S_IFSOCK -> socket_eq(first, second)

----------------------------------------------------------------------------
(* dirs(): the tasks.  A task is one item of a fan-out: the entry_eq call  *)
(* for a matched pair of children (or for the roots), or the item of a     *)
(* name the second listing lacks.  Its id is the path from the root.       *)
(*   pc: "none"     not dispatched                                         *)
(*       "start"    dispatched, entry_eq not begun                         *)
(*       "locked"   holds the mutex, before the lookups                    *)
(*       "insert"   holds the mutex, both entries found vacant             *)
(*       "compare"  mutex released, before the metadata checks             *)
(*       "join"     in dir_eq, waiting in find_any for the children        *)
(*       "missing"  the item of a name absent from the second listing      *)
(*       "done"     returned res                                           *)
(*       "skipped"  never run: find_any had its answer before it began     *)

NoTask ==
    [pc |-> "none", first |-> NoEntry, second |-> NoEntry,
     is_new |-> FALSE, handler |-> "", res |-> Pending]

ChildIds(t) == {c \in AllPaths : Len(c) = Len(t) + 1 /\ SubSeq(c, 1, Len(t)) = t}
Children(t) == {c \in ChildIds(t) : tasks[c].pc # "none"}

Finish(t, r) == [tasks EXCEPT ![t].pc = "done", ![t].res = r]

\* entry_eq: self.inode_maps.lock()
Lock(t) ==
    /\ tasks[t].pc = "start"
    /\ MutexAvailable(mutex)
    /\ mutex' = mutex \cup {t}
    /\ tasks' = [tasks EXCEPT ![t].pc = "locked"]
    /\ UNCHANGED <<calc, rc, tree, cfg, inode_maps, cfiles, csize, cpc, chunks, cresult>>

\* entry_eq: the two lookups and the decision; the guard is dropped on return
Lookup(t) ==
    /\ tasks[t].pc = "locked"
    /\ LET first == tasks[t].first
           second == tasks[t].second
           first_value == entry_get(inode_maps[1], first.ino)
           second_value == entry_get(inode_maps[2], second.ino)
           outcome == IdentityOutcome(first_value, second_value)
       IN  IF outcome = "mismatch"
           THEN /\ tasks' = Finish(t, unequal(DiffInodes(first_value, second_value),
                                              first, second))
                /\ mutex' = mutex \ {t}
           ELSE IF outcome = "new"
           THEN /\ tasks' = [tasks EXCEPT ![t].pc = "insert", ![t].is_new = TRUE]
                /\ mutex' = mutex
           ELSE /\ tasks' = Finish(t, Equal)
                /\ mutex' = mutex \ {t}
    /\ UNCHANGED <<calc, rc, tree, cfg, inode_maps, cfiles, csize, cpc, chunks, cresult>>

\* mutation: the guard is kept after the inserts, into the checks and handlers
Insert_KeepsGuard(t) ==
    /\ tasks[t].pc = "insert"
    /\ inode_maps' =
           <<MapInsert(inode_maps[1], tasks[t].first.ino, tasks[t].first.path),
             MapInsert(inode_maps[2], tasks[t].second.ino, tasks[t].second.path)>>
    /\ mutex' = mutex
    /\ tasks' = [tasks EXCEPT ![t].pc = "compare"]
    /\ UNCHANGED <<calc, rc, tree, cfg, cfiles, csize, cpc, chunks, cresult>>
\* entry_eq: both or_insert_with calls, then the guard is dropped
Insert(t) ==
    /\ tasks[t].pc = "insert"
    /\ inode_maps' =
           <<MapInsert(inode_maps[1], tasks[t].first.ino, tasks[t].first.path),
             MapInsert(inode_maps[2], tasks[t].second.ino, tasks[t].second.path)>>
    /\ mutex' = mutex \ {t}
    /\ tasks' = [tasks EXCEPT ![t].pc = "compare"]
    /\ UNCHANGED <<calc, rc, tree, cfg, cfiles, csize, cpc, chunks, cresult>>

\* mutation: the listings' sizes are not compared
DirSizesDiffer_Never(first_contents, second_contents) == FALSE
\* first_contents.len() != second_contents.len()
DirSizesDiffer(first_contents, second_contents) ==
    Cardinality(first_contents) # Cardinality(second_contents)

\* dir_eq up to the fan-out: the listings, the size check, one item per name
DirFanOut(t, first, second) ==
    LET first_contents == list_dir(1, first)
        second_contents == list_dir(2, second)
    IN  IF ListFails(1, first) \/ ListFails(2, second)
        THEN Finish(t, Err)
        ELSE IF DirSizesDiffer(first_contents, second_contents)
        THEN Finish(t, unequal(DiffDirContents(first_contents, second_contents),
                               first, second))
        ELSE [c \in AllPaths |->
                IF c = t THEN [tasks[t] EXCEPT !.pc = "join"]
                ELSE IF c \in ChildIds(t) /\ c[Len(c)] \in first_contents
                THEN IF c[Len(c)] \in second_contents
                     THEN [NoTask EXCEPT !.pc = "start",
                                         !.first = child_entry(1, first, c[Len(c)]),
                                         !.second = child_entry(2, second, c[Len(c)])]
                     ELSE [NoTask EXCEPT !.pc = "missing",
                                         !.first = first, !.second = second]
                ELSE tasks[c]]

\* entry_eq after the identity check: the metadata fields, then the handler
Compare(t) ==
    /\ tasks[t].pc = "compare"
    /\ LET first == tasks[t].first
           second == tasks[t].second
           meta == MetadataCheck(first, second)
       IN  IF meta # Equal
           THEN tasks' = Finish(t, meta)
           ELSE IF FileType(first) = S_IFDIR
           THEN tasks' = [DirFanOut(t, first, second) EXCEPT ![t].handler = "dir"]
           ELSE \E r \in LeafHandler(first, second) :
                    tasks' = [Finish(t, r) EXCEPT ![t].handler = "leaf"]
    /\ UNCHANGED <<calc, rc, tree, cfg, inode_maps, mutex, cfiles, csize, cpc, chunks, cresult>>

\* dir_eq: the item of a name of the first listing that the second lacks
Missing(t) ==
    /\ tasks[t].pc = "missing"
    /\ LET first == tasks[t].first
           second == tasks[t].second
       IN  tasks' = Finish(t, unequal(DiffDirContents(list_dir(1, first), list_dir(2, second)),
                                      first, second))
    /\ UNCHANGED <<calc, rc, tree, cfg, inode_maps, mutex, cfiles, csize, cpc, chunks, cresult>>

\* dir_eq: find_any returns
Join(t) ==
    /\ tasks[t].pc = "join"
    /\ LET pcs == [c \in Children(t) |-> tasks[c].pc]
           results == [c \in Children(t) |-> tasks[c].res]
       IN  /\ FindAnyReady(pcs, results)
           /\ \E r \in FindAnyResults(pcs, results) :
                 tasks' = [c \in AllPaths |->
                             IF c = t THEN [tasks[t] EXCEPT !.pc = "done", !.res = r]
                             ELSE IF c \in Children(t) /\ tasks[c].pc # "done"
                             THEN [tasks[c] EXCEPT !.pc = "skipped"]
                             ELSE tasks[c]]
    /\ UNCHANGED <<calc, rc, tree, cfg, inode_maps, mutex, cfiles, csize, cpc, chunks, cresult>>

----------------------------------------------------------------------------
(* The values of calc and rc while neither is in use *)

NoCalc == [pc |-> "idle", size |-> 0, limit |-> 0, chunk_size |-> 1, leap |-> 0, count |-> 0]

NoRc == [start |-> 0, size |-> 0, leap |-> 0, end |-> None,
         first |-> 0, yielded |-> <<>>, nones |-> 0]

----------------------------------------------------------------------------
(* dirs(): the initial states *)

RegVariants == {v \in LeafVariants : v.st_mode \div 4096 = S_IFREG \div 4096}

Scenario(trees, ignored, limit) == [trees |-> trees, ignored |-> ignored, limit |-> limit]

HasIgnorable(side) == \E p \in DOMAIN side.links : p # <<>> /\ p[Len(p)] = "i"

TreeScenarios ==
    {Scenario(tp, {"i"}, None) : tp \in FamilyH \cup FamilyT \cup FamilyP \cup FamilyF}
    \cup {Scenario(tp, {}, None) :
            tp \in {x \in FamilyP : HasIgnorable(x[1]) \/ HasIgnorable(x[2])}}
    \cup {Scenario(<<SideT(va), SideT(vb)>>, {"i"}, Some(BUF_SIZE)) :
            va \in RegVariants, vb \in RegVariants}

Init ==
    /\ \E sc \in TreeScenarios :
          /\ tree = sc.trees
          /\ cfg = [ignored_dirs |-> sc.ignored, full_compare_limit |-> sc.limit]
    /\ tasks = [c \in AllPaths |->
                  IF c = Root
                  THEN [NoTask EXCEPT !.pc = "start",
                                      !.first = RootEntry(1), !.second = RootEntry(2)]
                  ELSE NoTask]
    /\ inode_maps = << <<>>, <<>> >>
    /\ mutex = {}
    /\ cfiles = <<>>
    /\ csize = 0
    /\ cpc = "idle"
    /\ chunks = <<>>
    /\ cresult = Pending
    /\ calc = NoCalc
    /\ rc = NoRc

Next ==
    \/ \E t \in AllPaths : Lock(t)
    \/ \E t \in AllPaths : Lookup(t)
    \/ \E t \in AllPaths : Insert(t)
    \/ \E t \in AllPaths : Compare(t)
    \/ \E t \in AllPaths : Missing(t)
    \/ \E t \in AllPaths : Join(t)

Spec == Init /\ [][Next]_vars

\* dirs() on a pool whose workers keep running: while some item of a fan-out
\* can take a step, one of them does
FairSpec == Init /\ [][Next]_vars /\ WF_vars(Next)

\* what dirs() returns
DirsDone == tasks[Root].pc = "done"
DirsResult == tasks[Root].res

----------------------------------------------------------------------------
(* contents(size): two files compared over `size` bytes, one task per chunk *)

\* EntryInfo::file: a handle on the file's directory, the path is the file name
FileEntry(name) == [parent |-> <<>>, parent_path |-> <<>>, path |-> <<name>>, ino |-> 0]

\* contents_eq before the fan-out: size 0 is Equal, else one item per chunk index
ContentsBegin ==
    /\ cpc = "start"
    /\ IF csize = 0
       THEN /\ cresult' = Equal
            /\ cpc' = "done"
            /\ chunks' = chunks
       ELSE /\ chunks' = [i \in ChunkIndices(cfg.full_compare_limit, csize) |-> Pending]
            /\ cpc' = "par"
            /\ cresult' = cresult
    /\ UNCHANGED <<calc, rc, tree, cfg, tasks, inode_maps, mutex, cfiles, csize>>

\* the chunk closure for index i
ChunkTask(i) ==
    /\ cpc = "par"
    /\ chunks[i] = Pending
    /\ chunks' = [chunks EXCEPT ![i] =
                     CompareChunk(ChunkOf(i, cfg.full_compare_limit, csize),
                                  cfiles[1].data, cfiles[2].data,
                                  cfiles[1].entry, cfiles[2].entry)]
    /\ UNCHANGED <<calc, rc, tree, cfg, tasks, inode_maps, mutex, cfiles, csize, cpc, cresult>>

\* contents_eq: find_any returns
ContentsJoin ==
    /\ cpc = "par"
    /\ LET pcs == [i \in DOMAIN chunks |-> IF chunks[i] = Pending THEN "start" ELSE "done"]
       IN  /\ FindAnyReady(pcs, chunks)
           /\ \E r \in FindAnyResults(pcs, chunks) : cresult' = r
    /\ cpc' = "done"
    /\ UNCHANGED <<calc, rc, tree, cfg, tasks, inode_maps, mutex, cfiles, csize, chunks>>

Sizes == {c * BUF_SIZE + r : c \in 0..MaxChunks, r \in {0, 1, BLOCK_SIZE + 1, BUF_SIZE - 1}}

Offsets(size) ==
    {o \in {c * BUF_SIZE + r : c \in 0..MaxChunks, r \in {0, BLOCK_SIZE - 1, BLOCK_SIZE, BUF_SIZE - 1}}
             \cup {size - 1} : 0 <= o /\ o < size}

Limits == {None} \cup {Some(l) : l \in {1, BLOCK_SIZE, BUF_SIZE, BUF_SIZE + BLOCK_SIZE, 2 * BUF_SIZE}}

InitContents ==
    /\ csize \in Sizes
    /\ \E name \in {"f", "g"}, d \in {S \in SUBSET Offsets(csize) : Cardinality(S) <= 2} :
          cfiles = <<[entry |-> FileEntry("f"), data |-> {}],
                     [entry |-> FileEntry(name), data |-> d]>>
    /\ \E l \in Limits : cfg = [ignored_dirs |-> {}, full_compare_limit |-> l]
    /\ cpc = "start"
    /\ chunks = <<>>
    /\ cresult = Pending
    /\ tree = <<BaseSide, BaseSide>>
    /\ tasks = [c \in AllPaths |-> NoTask]
    /\ inode_maps = << <<>>, <<>> >>
    /\ mutex = {}
    /\ calc = NoCalc
    /\ rc = NoRc

NextContents ==
    \/ ContentsBegin
    \/ \E i \in DOMAIN chunks : ChunkTask(i)
    \/ ContentsJoin

SpecContents == InitContents /\ [][NextContents]_vars

\* the bytes at which the two files of contents() differ
DiffBytes == (cfiles[1].data \ cfiles[2].data) \cup (cfiles[2].data \ cfiles[1].data)

----------------------------------------------------------------------------
(* calc_leap and calc_chunk_count applied to arguments of any size *)

IdleTree ==
    /\ tree = <<BaseSide, BaseSide>>
    /\ cfg = [ignored_dirs |-> {}, full_compare_limit |-> None]
    /\ tasks = [c \in AllPaths |-> NoTask]
    /\ inode_maps = << <<>>, <<>> >>
    /\ mutex = {}

IdleContents ==
    /\ cfiles = <<>>
    /\ csize = 0
    /\ cpc = "idle"
    /\ chunks = <<>>
    /\ cresult = Pending

InitCalc ==
    /\ \E size \in 0..MaxCalcSize, limit \in 0..MaxCalcLimit, chunk_size \in 1..MaxCalcChunk :
          calc = [NoCalc EXCEPT !.pc = "args", !.size = size, !.limit = limit,
                                !.chunk_size = chunk_size]
    /\ rc = NoRc
    /\ IdleTree
    /\ IdleContents

CalcLeap ==
    /\ calc.pc = "args"
    /\ calc' = [calc EXCEPT !.pc = "leap",
                            !.leap = calc_leap(calc.size, calc.limit, calc.chunk_size)]
    /\ UNCHANGED <<rc, tree, cfg, tasks, inode_maps, mutex, cfiles, csize, cpc, chunks, cresult>>

CalcChunkCount ==
    /\ calc.pc = "leap"
    /\ calc' = [calc EXCEPT !.pc = "done",
                            !.count = calc_chunk_count(calc.limit, calc.chunk_size)]
    /\ UNCHANGED <<rc, tree, cfg, tasks, inode_maps, mutex, cfiles, csize, cpc, chunks, cresult>>

NextCalc == CalcLeap \/ CalcChunkCount

SpecCalc == InitCalc /\ [][NextCalc]_vars

----------------------------------------------------------------------------
(* RangeChunks (src/src/range_chunks.rs): (start..end).chunks_leap(size, leap) *)

\* ChunkableRange::chunks_leap on start..end; chunks(size) is chunks_leap(size, size)
chunks_leap(start, end, size, leap) ==
    [NoRc EXCEPT !.start = start, !.size = size, !.leap = leap, !.end = Some(end),
                 !.first = start]

InitRc ==
    /\ \E start \in 0..MaxRcStart, end \in 0..MaxRcEnd,
          size \in 0..MaxRcSize, leap \in 0..MaxRcLeap :
          rc = chunks_leap(start, end, size, leap)
    /\ calc = NoCalc
    /\ IdleTree
    /\ IdleContents

\* mutation: the last range is not cut at the end of the interval
RcItem_NoClamp(start, size, end) == [start |-> start, end |-> start + size]
\* RangeChunks::next: the range yielded when start is before the end
RcItem(start, size, end) ==
    [start |-> start,
     end |-> IF end # None THEN min(end[1], start + size) ELSE start + size]

\* RangeChunks::next: None at or past the end, else the next range, and start moves on
RcNext ==
    /\ Len(rc.yielded) + rc.nones < MaxRcCalls
    /\ IF rc.end # None /\ rc.start >= rc.end[1]
       THEN rc' = [rc EXCEPT !.nones = rc.nones + 1]
       ELSE rc' = [rc EXCEPT !.yielded = Append(rc.yielded, RcItem(rc.start, rc.size, rc.end)),
                             !.start = rc.start + rc.leap]
    /\ UNCHANGED <<calc, tree, cfg, tasks, inode_maps, mutex, cfiles, csize, cpc, chunks, cresult>>

NextRc == RcNext

SpecRc == InitRc /\ [][NextRc]_vars

----------------------------------------------------------------------------
(* Properties of contents() *)

ContentsDone == cpc = "done"
FullCompare == cfg.full_compare_limit = None
ReportsContents(r) == r.kind = "Unequal" /\ r.diff.tag = "Contents"

\* C2 (as claimed): under a full comparison, two files of the same size > 0
\* that differ at exactly one byte are reported Unequal with a Contents diff.
C2_FullCompareDetects ==
    (ContentsDone /\ FullCompare /\ csize > 0 /\ Cardinality(DiffBytes) = 1)
        => ReportsContents(cresult)

\* the first differing byte (absolute offset) inside the chunk of index i
FirstDiffIn(i) ==
    LET ch == ChunkOf(i, cfg.full_compare_limit, csize)
    IN  MinOf({d \in DiffBytes : ch.start <= d /\ d < ch.end})

\* C8: the first field of a Contents diff is the index of the 512-byte block
\* that holds the first differing byte of the chunk (chunk start + index in
\* the chunk, divided by 512); for files differing at the single byte k under
\* a full comparison it is k div 512.
C8_BlockIndex ==
    /\ \A i \in DOMAIN chunks :
          chunks[i].kind = "Unequal" =>
              /\ chunks[i].diff.tag = "Contents"
              /\ chunks[i].diff.n1 = FirstDiffIn(i) \div 512
    /\ (ContentsDone /\ cresult.kind = "Unequal" /\ FullCompare /\ Cardinality(DiffBytes) = 1)
          => \A k \in DiffBytes : cresult.diff.n1 = k \div 512

\* witness of C8: a full comparison reported a single differing byte that
\* lies in the second chunk
C8_Witness ==
    /\ ContentsDone /\ FullCompare /\ ReportsContents(cresult)
    /\ Cardinality(DiffBytes) = 1
    /\ \A k \in DiffBytes : k > BUF_SIZE /\ cresult.diff.n1 = k \div 512

\* C9 (as claimed): the position of a Contents diff is a byte offset, the
\* first differing byte rounded down to a block boundary.
C9_ByteOffset ==
    (ContentsDone /\ cresult.kind = "Unequal" /\ Cardinality(DiffBytes) = 1)
        => \A k \in DiffBytes : cresult.diff.n1 = (k \div BLOCK_SIZE) * BLOCK_SIZE

\* C9 (amended): the position of a Contents diff is a block index; times the
\* block size it is the offset of a differing byte rounded down to a block
\* boundary, and for files differing only at byte k it is k rounded down.
C9_BlockIndexTimesBlockSize ==
    (ContentsDone /\ cresult.kind = "Unequal")
        => /\ \E d \in DiffBytes :
                 cresult.diff.n1 * BLOCK_SIZE = (d \div BLOCK_SIZE) * BLOCK_SIZE
           /\ Cardinality(DiffBytes) = 1 =>
                 \A k \in DiffBytes :
                     cresult.diff.n1 * BLOCK_SIZE = (k \div BLOCK_SIZE) * BLOCK_SIZE

\* witness of C9: a reported position that is a block index and no byte offset
C9_Witness ==
    /\ ContentsDone /\ ReportsContents(cresult)
    /\ DiffBytes = {BLOCK_SIZE}
    /\ cresult.diff.n1 = 1

----------------------------------------------------------------------------
(* Properties of dirs(): what the two trees are, independently of any run *)

Other(side) == 3 - side

\* the paths of a side no component of which is ignored
Visible(side) ==
    {p \in DOMAIN tree[side].links : \A k \in 1..Len(p) : p[k] \notin cfg.ignored_dirs}

\* the names directly under directory d of a side, ignored names left out
FilteredNames(side, d) ==
    {p[Len(p)] : p \in {q \in Visible(side) : Len(q) = Len(d) + 1 /\ SubSeq(q, 1, Len(d)) = d}}

StatAt(side, p) == tree[side].nodes[tree[side].links[p]]

\* the path dirs() reports for the entry at p
ReportedPath(p) == IF p = Root THEN <<".">> ELSE p

PermissionsDiffer(a, b) ==
    a.st_mode # b.st_mode \/ a.st_uid # b.st_uid \/ a.st_gid # b.st_gid

\* some chunk that contents_eq reads differs between the two files
ComparedChunkDiffers(a, b) ==
    /\ a.st_size > 0
    /\ \E i \in ChunkIndices(cfg.full_compare_limit, a.st_size) :
          LET ch == ChunkOf(i, cfg.full_compare_limit, a.st_size)
          IN  \E d \in (a.data \ b.data) \cup (b.data \ a.data) : ch.start <= d /\ d < ch.end

\* the entry pair at p differs in something entry_eq compares for it
EntryDiffers(p) ==
    LET a == StatAt(1, p)
        b == StatAt(2, p)
        type == (a.st_mode \div 4096) * 4096
    IN  \/ p # Root /\ PermissionsDiffer(a, b)
        \/ a.st_nlink # b.st_nlink
        \/ type = S_IFDIR /\ FilteredNames(1, p) # FilteredNames(2, p)
        \/ type = S_IFREG /\ (a.st_size # b.st_size \/ ComparedChunkDiffers(a, b))
        \/ type = S_IFLNK /\ a.target # b.target
        \/ type \in {S_IFBLK, S_IFCHR} /\ a.st_rdev # b.st_rdev

\* the two sides link the same paths together
LinksAgree ==
    \A p \in Visible(1) \cap Visible(2) : \A q \in Visible(1) \cap Visible(2) :
        (tree[1].links[p] = tree[1].links[q]) <=> (tree[2].links[p] = tree[2].links[q])

\* no entry pair and no compared chunk differs
NoDifference ==
    /\ Visible(1) = Visible(2)
    /\ \A p \in Visible(1) : ~EntryDiffers(p)
    /\ LinksAgree

\* the task is an entry_eq call (not the item of a missing name)
IsEntryTask(t) == tasks[t].pc # "none" /\ AbsPath(tasks[t].first) = t

\* entry_eq was called for the pair at t and has begun
Reached(t) == IsEntryTask(t) /\ tasks[t].pc \in {"locked", "insert", "compare", "join", "done"}

\* entry_eq returned Equal from the identity check: the pair was taken as seen before
ReturnedDuplicate(t) ==
    IsEntryTask(t) /\ tasks[t].pc = "done" /\ ~tasks[t].is_new /\ tasks[t].res = Equal

----------------------------------------------------------------------------
(* Properties of dirs(): the claims *)

\* every read of both trees succeeds
NoFaults == tree[1].faulty = {} /\ tree[2].faulty = {}

\* C1: comparing a tree with itself returns Equal, whatever the file types
\* and hard links in it and however the workers interleave.
C1_Reflexive == (tree[1] = tree[2] /\ NoFaults /\ DirsDone) => DirsResult = Equal

\* witness of C1: a tree compared with itself to the end, a hard link of it
\* skipped as a duplicate and the file below the reopened handle compared
C1_Witness ==
    /\ tree[1] = tree[2] /\ DirsDone /\ DirsResult = Equal
    /\ \E t \in AllPaths : ReturnedDuplicate(t)
    /\ tasks[PABF].pc = "done"

\* the second tree is the first with the entry at p (and what is below it) removed
RemovedAt(with, without, p) ==
    /\ p \in Visible(with)
    /\ p # Root
    /\ tree[without].nodes = tree[with].nodes
    /\ DOMAIN tree[without].links =
          {q \in DOMAIN tree[with].links : ~(Len(q) >= Len(p) /\ SubSeq(q, 1, Len(p)) = p)}
    /\ \A q \in DOMAIN tree[without].links : tree[without].links[q] = tree[with].links[q]

ParentOf(p) == SubSeq(p, 1, Len(p) - 1)

\* C3: a name added to or removed from one directory of otherwise identical
\* trees makes dirs() return a DirContents diff for that directory carrying
\* both filtered name sets; and dir_eq never returns Equal for two
\* directories whose filtered name sets differ.
C3_DirContents ==
    /\ \A side \in {1, 2} : \A p \in AllPaths :
          (DirsDone /\ NoFaults /\ RemovedAt(side, Other(side), p)) =>
              /\ DirsResult.kind = "Unequal"
              /\ DirsResult.diff =
                    DiffDirContents(FilteredNames(1, ParentOf(p)), FilteredNames(2, ParentOf(p)))
              /\ DirsResult.path = Some(ReportedPath(ParentOf(p)))
    /\ \A t \in AllPaths :
          (tasks[t].handler = "dir" /\ tasks[t].pc = "done"
             /\ FilteredNames(1, t) # FilteredNames(2, t))
              => tasks[t].res.kind = "Unequal"

\* witness of C3: a name present in the second tree only, below the reopened
\* handle, reported as a DirContents diff of that directory
C3_Witness ==
    /\ DirsDone /\ RemovedAt(2, 1, PABN)
    /\ DirsResult.diff.tag = "DirContents" /\ DirsResult.path = Some(PAB)
    /\ DirsResult.diff.s1 # DirsResult.diff.s2

\* one side links p and q to one inode, the other side does not
HardLinkOnOneSide ==
    \E side \in {1, 2} : \E p \in Visible(1) \cap Visible(2) : \E q \in Visible(1) \cap Visible(2) :
        /\ tree[side].links[p] = tree[side].links[q]
        /\ tree[Other(side)].links[p] # tree[Other(side)].links[q]

\* C4 (as claimed): when an inode is linked at two paths on one side and only
\* one of them links to the corresponding inode on the other side, dirs()
\* reports an Inodes diff in every interleaving.  Stated for trees that agree
\* in every listing and every compared field, so that no other diff exists.
C4_ReportsInodes ==
    (DirsDone /\ HardLinkOnOneSide /\ Visible(1) = Visible(2)
       /\ \A p \in Visible(1) : ~EntryDiffers(p))
        => (DirsResult.kind = "Unequal" /\ DirsResult.diff.tag = "Inodes")

\* C5 (as claimed): whether dirs() returns Equal is fixed by the two trees:
\* Equal in every run if no entry pair or chunk differs, in no run otherwise.
C5_EqualIffNoDifference ==
    (DirsDone /\ NoFaults) => (DirsResult = Equal <=> NoDifference)

\* C6 (as claimed): the roots' mode, owner and group are never reported, and
\* a reached non-root pair differing in one of them makes the result Unequal.
C6_RootExemptOthersEnforced ==
    /\ \A t \in AllPaths :
          (tasks[t].res.kind = "Unequal" /\ tasks[t].res.diff.tag \in {"Modes", "Uids", "Gids"})
              => tasks[t].res.path # Some(<<".">>)
    /\ \A t \in AllPaths :
          (DirsDone /\ t # Root /\ Reached(t)
             /\ PermissionsDiffer(stat(1, tasks[t].first), stat(2, tasks[t].second)))
              => DirsResult.kind = "Unequal"

\* a side with every ignored entry, and every inode only they use, removed
Stripped(side) ==
    LET used == {tree[side].links[p] : p \in Visible(side)}
    IN  [links |-> [p \in Visible(side) |-> tree[side].links[p]],
         nodes |-> [i \in used |-> tree[side].nodes[i]]]

\* C7: an entry with an ignored name is never compared nor descended into,
\* never appears in a DirContents diff, and cannot change the result: trees
\* that are the same once the ignored entries are removed compare Equal.
C7_IgnoredNeverCompared ==
    /\ \A t \in AllPaths :
          tasks[t].pc # "none" => \A k \in 1..Len(t) : t[k] \notin cfg.ignored_dirs
    /\ \A t \in AllPaths :
          (tasks[t].res.diff.s1 \cup tasks[t].res.diff.s2) \cap cfg.ignored_dirs = {}
    /\ (DirsDone /\ NoFaults /\ Stripped(1) = Stripped(2)) => DirsResult = Equal

\* witness of C7: the trees differ only in entries named in the ignore set
\* (present on one side only, or with different bytes) and compared Equal
C7_Witness ==
    /\ DirsDone /\ DirsResult = Equal
    /\ cfg.ignored_dirs # {}
    /\ tree[1] # tree[2]
    /\ Stripped(1) = Stripped(2)
    /\ \E p \in DOMAIN tree[1].links : p \notin Visible(1)

\* the step leaves both maps alone or adds one fresh inode to each
MapsStep ==
    \/ inode_maps' = inode_maps
    \/ \E a \in Inos \ DOMAIN inode_maps[1] : \E b \in Inos \ DOMAIN inode_maps[2] :
          /\ DOMAIN inode_maps'[1] = DOMAIN inode_maps[1] \cup {a}
          /\ DOMAIN inode_maps'[2] = DOMAIN inode_maps[2] \cup {b}
          /\ \A i \in DOMAIN inode_maps[1] : inode_maps'[1][i] = inode_maps[1][i]
          /\ \A i \in DOMAIN inode_maps[2] : inode_maps'[2][i] = inode_maps[2][i]

\* tasks whose identity check came out new and has inserted
Registered == {t \in AllPaths : tasks[t].is_new /\ tasks[t].pc \in {"compare", "join", "done"}}

\* C10: lookup and insert are one critical section of one mutex: at most one
\* task is inside; a step adds one entry to both maps or changes neither and
\* never overwrites or removes one; outside the critical section both maps
\* hold equally many entries; no inode is registered as new by two tasks.
C10_RegisterAtomic ==
    /\ [](Cardinality(mutex) <= 1)
    /\ [](mutex = {} => Cardinality(DOMAIN inode_maps[1]) = Cardinality(DOMAIN inode_maps[2]))
    /\ [](\A t \in Registered : \A u \in Registered :
             (t # u) => /\ tasks[t].first.ino # tasks[u].first.ino
                        /\ tasks[t].second.ino # tasks[u].second.ino)
    /\ [][MapsStep]_vars

\* witness of C10: all three outcomes have happened: entries registered, a
\* pair returned as duplicate, and the maps hold the same number of entries
C10_Witness ==
    /\ mutex = {}
    /\ Cardinality(DOMAIN inode_maps[1]) >= 4
    /\ Cardinality(DOMAIN inode_maps[1]) = Cardinality(DOMAIN inode_maps[2])
    /\ \E t \in AllPaths : ReturnedDuplicate(t)

\* the task at t registered its pair as new (both inserts done)
RegisteredNew(t) == tasks[t].is_new /\ tasks[t].pc \in {"compare", "join", "done"}

\* C11 (as claimed): entry_eq returns Equal as a duplicate only when both
\* inodes are recorded and each recorded path equals the path of the current
\* entry on its side.
C11_DuplicateAtSamePath ==
    \A t \in AllPaths : ReturnedDuplicate(t) =>
        /\ tasks[t].first.ino \in DOMAIN inode_maps[1]
        /\ tasks[t].second.ino \in DOMAIN inode_maps[2]
        /\ inode_maps[1][tasks[t].first.ino] = tasks[t].first.path
        /\ inode_maps[2][tasks[t].second.ino] = tasks[t].second.path

\* C11 (amended): entry_eq returns Equal as a duplicate only when both
\* inodes are recorded and the two recorded paths are equal to each other;
\* they need not be the paths of the current pair.
C11_DuplicateWhenRecordedAgree ==
    \A t \in AllPaths : ReturnedDuplicate(t) =>
        /\ tasks[t].first.ino \in DOMAIN inode_maps[1]
        /\ tasks[t].second.ino \in DOMAIN inode_maps[2]
        /\ inode_maps[1][tasks[t].first.ino] = inode_maps[2][tasks[t].second.ino]

\* witness of C11: a second link of a file, at a path other than the
\* recorded one, returned as a duplicate
C11_Witness ==
    \E t \in AllPaths :
        /\ ReturnedDuplicate(t)
        /\ tasks[t].first.ino \in DOMAIN inode_maps[1]
        /\ inode_maps[1][tasks[t].first.ino] # tasks[t].first.path
        /\ inode_maps[1][tasks[t].first.ino] = inode_maps[2][tasks[t].second.ino]

\* the entry_eq call at t ended in the metadata checks with the diff of tag
MetadataResult(t, tag) ==
    /\ IsEntryTask(t) /\ tasks[t].is_new /\ tasks[t].pc = "done" /\ tasks[t].handler = ""
    /\ tasks[t].res.kind = "Unequal" /\ tasks[t].res.diff.tag = tag

\* the entry_eq call at t went through the metadata checks
PastMetadata(t) == IsEntryTask(t) /\ tasks[t].is_new /\ tasks[t].pc \in {"join", "done"}

\* C12 (as claimed): metadata is compared in the order mode, link count,
\* owner, group: a non-root pair with equal modes and different link counts
\* is reported as Nlinks, also when owner or group differ too.
C12_NlinksBeforeOwner ==
    \A t \in AllPaths \ {Root} :
        LET a == stat(1, tasks[t].first)
            b == stat(2, tasks[t].second)
        IN  (PastMetadata(t) /\ a.st_mode = b.st_mode /\ a.st_nlink # b.st_nlink)
                => MetadataResult(t, "Nlinks")

\* C12 (amended): metadata is compared in the order mode, owner, group, link
\* count (the roots: link count only) and the first differing field in that
\* order is the one reported.
C12_OrderModeOwnerGroupNlinks ==
    \A t \in AllPaths :
        LET a == stat(1, tasks[t].first)
            b == stat(2, tasks[t].second)
            perms == t # Root
            first_tag ==
                IF perms /\ a.st_mode # b.st_mode THEN "Modes"
                ELSE IF perms /\ a.st_uid # b.st_uid THEN "Uids"
                ELSE IF perms /\ a.st_gid # b.st_gid THEN "Gids"
                ELSE IF a.st_nlink # b.st_nlink THEN "Nlinks"
                ELSE ""
        IN  PastMetadata(t) =>
                /\ first_tag # "" => MetadataResult(t, first_tag)
                /\ first_tag = "" => tasks[t].handler # ""

\* witness of C12: a pair differing in owner and link count reported as Uids
C12_Witness ==
    \E t \in AllPaths \ {Root} :
        /\ MetadataResult(t, "Uids")
        /\ stat(1, tasks[t].first).st_nlink # stat(2, tasks[t].second).st_nlink
        /\ DirsDone /\ DirsResult = tasks[t].res

IsPrefix(p, q) == Len(p) <= Len(q) /\ SubSeq(q, 1, Len(p)) = p

\* the diff is one that entry_eq or dir_eq produces for the pair at q
FoundAt(q, diff) ==
    /\ q \in Visible(1) \cap Visible(2)
    /\ tasks[q].pc # "none"
    /\ CASE diff.tag = "Inodes" -> diff.p1 # diff.p2
         [] diff.tag = "DirContents" ->
                /\ diff.s1 = FilteredNames(1, q) /\ diff.s2 = FilteredNames(2, q)
                /\ diff.s1 # diff.s2
         [] OTHER -> EntryDiffers(q)

\* C14: in dirs() both sides of every compared pair carry the same path and
\* prefix, and every Unequal result carries Some(p) where p is the path from
\* the roots of the pair the difference was found at ("." for the roots).
C14_UnequalCarriesPath ==
    /\ \A t \in AllPaths : tasks[t].pc # "none" =>
          /\ tasks[t].first.path = tasks[t].second.path
          /\ tasks[t].first.parent_path = tasks[t].second.parent_path
          /\ tasks[t].first.parent_path \o tasks[t].first.path
                = ReportedPath(AbsPath(tasks[t].first))
    /\ \A t \in AllPaths : tasks[t].res.kind = "Unequal" =>
          /\ tasks[t].res.path # None
          /\ \E q \in AllPaths :
                /\ IsPrefix(AbsPath(tasks[t].first), q)
                /\ tasks[t].res.path = Some(ReportedPath(q))
                /\ FoundAt(q, tasks[t].res.diff)

\* witness of C14: a difference of the file below the reopened handle
\* returned by dirs() with the file's whole path
C14_Witness ==
    /\ DirsDone /\ DirsResult.kind = "Unequal"
    /\ DirsResult.path = Some(PABF)
    /\ tasks[PABF].first.parent = PAB
    /\ tasks[PABF].res = DirsResult

\* C15: every path handed to a handle-relative operation (the entry's path
\* for metadata, list_dir, read_link and openat, the parent part for sub_dir)
\* is at most PATH_MAX long and resolves to the entry's place in the tree;
\* the entries below a reopened handle are reached and compared.
C15_PathsWithinLimit ==
    /\ \A t \in AllPaths : tasks[t].pc # "none" =>
          /\ PathStrLen(tasks[t].first.path) <= PATH_MAX
          /\ PathStrLen(tasks[t].second.path) <= PATH_MAX
    /\ \A t \in AllPaths : IsEntryTask(t) =>
          /\ AbsPath(tasks[t].second) = t
          /\ tasks[t].first.ino = tree[1].links[t]
          /\ tasks[t].second.ino = tree[2].links[t]
    /\ \A t \in AllPaths : tasks[t].pc = "join" =>
          \A n \in list_dir(1, tasks[t].first) :
              LET arg == SubDirArg(tasks[t].first, n)
              IN  arg # None =>
                    /\ PathStrLen(arg[1]) <= PATH_MAX
                    /\ tasks[t].first.parent \o arg[1] = t
    /\ (DirsDone /\ DirsResult = Equal) =>
          \A p \in Visible(1) : IsEntryTask(p) /\ tasks[p].pc = "done"

\* witness of C15: the file whose joined path exceeds PATH_MAX compared
\* through a handle opened on its directory, under its name alone
C15_Witness ==
    /\ DirsDone /\ DirsResult = Equal
    /\ PathStrLen(PABF) > PATH_MAX
    /\ tasks[PABF].pc = "done" /\ tasks[PABF].is_new
    /\ tasks[PABF].first.parent = PAB
    /\ tasks[PABF].first.path = <<"f">>

\* C20 (as claimed): entry_eq returns Equal as a duplicate only for a pair
\* of inodes that one other entry_eq call registered together as new.
C20_DuplicateOfOneRegistration ==
    \A t \in AllPaths : ReturnedDuplicate(t) =>
        \E u \in AllPaths \ {t} :
            /\ RegisteredNew(u)
            /\ tasks[u].first.ino = tasks[t].first.ino
            /\ tasks[u].second.ino = tasks[t].second.ino

----------------------------------------------------------------------------
(* Properties of the sampling arithmetic and of RangeChunks *)

\* the bytes contents_eq reads from each file: the lengths of all its chunks
BytesRead(full_compare_limit, size) ==
    LET last == calc_chunk_count(EffectiveLimit(full_compare_limit, size), BUF_SIZE_U64) - 1
        len(i) == ChunkOf(i, full_compare_limit, size).end
                    - ChunkOf(i, full_compare_limit, size).start
        sum[i \in 0..last] == IF i = 0 THEN len(0) ELSE sum[i - 1] + len(i)
    IN  sum[last]

\* C16 (as claimed): for every size > 0 and every limit, one content
\* comparison reads at most limit = min(full_compare_limit, size) bytes of
\* each file, and a limit below the chunk size gives one chunk of exactly
\* limit bytes.
C16_ReadsAtMostLimit ==
    (cpc \in {"par", "done"} /\ csize > 0) =>
        LET limit == EffectiveLimit(cfg.full_compare_limit, csize)
        IN  /\ BytesRead(cfg.full_compare_limit, csize) <= limit
            /\ limit < BUF_SIZE_U64 =>
                  /\ ChunkIndices(cfg.full_compare_limit, csize) = {0}
                  /\ BytesRead(cfg.full_compare_limit, csize) = limit

\* the least k with k * chunk_size >= limit
CeilDiv(limit, chunk_size) ==
    CHOOSE k \in 0..limit : k * chunk_size >= limit /\ \A j \in 0..(k - 1) : j * chunk_size < limit

\* the values the tests list for calc_leap and calc_chunk_count
CalcListed ==
    /\ (calc.size = 100 /\ calc.limit = 50 /\ calc.chunk_size = 2) => calc.leap = 4
    /\ (calc.size = 50 /\ calc.limit = 50 /\ calc.chunk_size = 2) => calc.leap = 2
    /\ (calc.size = 150 /\ calc.limit = 30 /\ calc.chunk_size = 2) => calc.leap = 10
    /\ (calc.size = 25 /\ calc.limit = 50 /\ calc.chunk_size = 2) => calc.leap = 2
    /\ (calc.size = 25 /\ calc.limit = 1 /\ calc.chunk_size = 2) => calc.leap = 1
    /\ (calc.limit = 1 /\ calc.chunk_size = 2) => calc.count = 1
    /\ (calc.limit = 50 /\ calc.chunk_size = 2) => calc.count = 25
    /\ (calc.limit = 20 /\ calc.chunk_size = 2) => calc.count = 10

\* the formulas of calc_leap and calc_chunk_count, and the lower bound
CalcFormulas ==
    /\ calc.limit < calc.chunk_size => calc.leap = calc.limit
    /\ calc.limit >= calc.chunk_size =>
          /\ calc.leap = max(calc.chunk_size,
                             calc.size \div CeilDiv(calc.limit, calc.chunk_size))
          /\ calc.leap >= calc.chunk_size
    /\ calc.count = max(calc.limit \div calc.chunk_size, 1)

\* C17 (as claimed): calc_leap is limit below one chunk and max(chunk, size
\* div ceil(limit / chunk)) otherwise, at least chunk when limit >= chunk and
\* exactly chunk whenever limit == size; calc_chunk_count is max(limit div
\* chunk, 1); both give the listed values.
C17_LeapIsChunkWhenLimitIsSize ==
    calc.pc = "done" =>
        /\ CalcFormulas
        /\ CalcListed
        /\ calc.limit = calc.size => calc.leap = calc.chunk_size

\* C17 (amended): as claimed, but calc_leap is exactly chunk when limit ==
\* size only for limit >= chunk; for limit == size < chunk it is limit.
C17_LeapAndChunkCount ==
    calc.pc = "done" =>
        /\ CalcFormulas
        /\ CalcListed
        /\ (calc.limit = calc.size /\ calc.limit >= calc.chunk_size)
              => calc.leap = calc.chunk_size
        /\ (calc.limit = calc.size /\ calc.limit < calc.chunk_size)
              => calc.leap = calc.limit

\* witness of C17: calc_leap(150, 30, 2) = 10 and calc_chunk_count(30, 2) = 15
C17_Witness ==
    /\ calc.pc = "done"
    /\ calc.size = 150 /\ calc.limit = 30 /\ calc.chunk_size = 2
    /\ calc.leap = 10 /\ calc.count = 15

\* C18: the i-th call of next() on (start..end).chunks_leap(size, leap)
\* yields [start + i*leap, min(end, start + i*leap + size)) as long as
\* start + i*leap < end and None from then on; with leap == size the ranges
\* yielded before the None are contiguous and each index of [start, end)
\* lies in exactly one of them.
C18_RangeChunksNext ==
    rc.end # None =>
        LET n == Len(rc.yielded)
            end == rc.end[1]
            At(i) == rc.first + (i - 1) * rc.leap
        IN  /\ \A i \in 1..n :
                  /\ At(i) < end
                  /\ rc.yielded[i] = [start |-> At(i), end |-> min(end, At(i) + rc.size)]
            /\ rc.nones > 0 => At(n + 1) >= end
            /\ (rc.leap = rc.size /\ rc.nones > 0) =>
                  /\ \A i \in 1..(n - 1) : rc.yielded[i].end = rc.yielded[i + 1].start
                  /\ \A x \in rc.first..(end - 1) :
                        Cardinality({i \in 1..n : rc.yielded[i].start <= x
                                                     /\ x < rc.yielded[i].end}) = 1
                  /\ \A i \in 1..n : rc.first <= rc.yielded[i].start /\ rc.yielded[i].end <= end

\* witness of C18: (0..30).chunks_leap(8, 12) gave 0..8, 12..20, 24..30, then
\* None twice
C18_Witness ==
    /\ rc.end = Some(30) /\ rc.first = 0 /\ rc.size = 8 /\ rc.leap = 12
    /\ rc.yielded = <<[start |-> 0, end |-> 8], [start |-> 12, end |-> 20],
                      [start |-> 24, end |-> 30]>>
    /\ rc.nones = 2

----------------------------------------------------------------------------
(* Properties of the fan-outs under operational failures *)

\* the pair at t is two regular files of one size > 0 whose chunks are compared
ChunksCompared(t) ==
    /\ IsEntryTask(t) /\ tasks[t].pc = "done" /\ tasks[t].handler = "leaf"
    /\ FileType(tasks[t].first) = S_IFREG
    /\ stat(1, tasks[t].first).st_size = stat(2, tasks[t].second).st_size
    /\ stat(1, tasks[t].first).st_size > 0

\* the read of some chunk of the pair at t fails
SomeReadFails(t) ==
    LET size == stat(1, tasks[t].first).st_size
    IN  \E i \in ChunkIndices(cfg.full_compare_limit, size) :
            LET ch == ChunkOf(i, cfg.full_compare_limit, size)
            IN  ReadFails(1, tasks[t].first, ch) \/ ReadFails(2, tasks[t].second, ch)

\* C13: a fan-out in which an item failed never returns Equal, and returns
\* the failure unless some item is Unequal: for the children of a directory,
\* for the chunks of a file, and so for dirs() as a whole.
C13_FailureNotHidden ==
    /\ \A t \in AllPaths :
          (/\ tasks[t].pc = "done" /\ tasks[t].handler = "dir"
           /\ \E c \in Children(t) : tasks[c].pc = "done" /\ tasks[c].res.kind = "Err") =>
              /\ tasks[t].res.kind # "Equal"
              /\ (\A c \in Children(t) : tasks[c].res.kind # "Unequal")
                    => tasks[t].res.kind = "Err"
    /\ \A t \in AllPaths :
          (ChunksCompared(t) /\ SomeReadFails(t)) =>
              /\ tasks[t].res.kind # "Equal"
              /\ ~ComparedChunkDiffers(stat(1, tasks[t].first), stat(2, tasks[t].second))
                    => tasks[t].res.kind = "Err"
    /\ (DirsDone /\ \E t \in AllPaths : tasks[t].pc = "done" /\ tasks[t].res.kind = "Err")
          => DirsResult.kind # "Equal"

\* witness of C13: the second chunk of a/f could not be read while its first
\* chunk and the sibling a/b compared Equal, and dirs() returned the failure
C13_Witness ==
    /\ DirsDone /\ DirsResult.kind = "Err"
    /\ tasks[PA].res.kind = "Err"
    /\ ChunksCompared(PAF) /\ SomeReadFails(PAF) /\ tasks[PAF].res.kind = "Err"
    /\ tasks[PAB].pc = "done" /\ tasks[PAB].res = Equal
    /\ tasks[PF].pc = "done" /\ tasks[PF].res = Equal

----------------------------------------------------------------------------
(* dirs() run by one worker: the entries are visited one after the other, *)
(* parents before children, a directory's names in sorted order.           *)

SeqOrder == <<Root, PA, PAB, PABF, PABI, PABN, PAF, PF, PI, PIF, PM, PN>>

\* the state of the run: the inode maps, the pairs handed to entry_eq so
\* far, and whether every result up to here is Equal
SeqInit(s1, s2) ==
    [maps |-> << <<>>, <<>> >>,
     pairs |-> (Root :> [first |-> RootEntry(s1), second |-> RootEntry(s2)]),
     equal |-> TRUE]

\* entry_eq for the pair at p, if it was handed out and nothing differed yet
SeqVisit(st, s1, s2, p) ==
    IF ~st.equal \/ p \notin DOMAIN st.pairs THEN st
    ELSE LET first == st.pairs[p].first
             second == st.pairs[p].second
             outcome == IdentityOutcome(entry_get(st.maps[1], first.ino),
                                        entry_get(st.maps[2], second.ino))
             inserted == <<MapInsert(st.maps[1], first.ino, first.path),
                           MapInsert(st.maps[2], second.ino, second.path)>>
             first_contents == list_dir(s1, first)
             second_contents == list_dir(s2, second)
         IN  IF outcome = "mismatch" THEN [st EXCEPT !.equal = FALSE]
             ELSE IF outcome = "duplicate" THEN st
             ELSE IF MetadataCheckOn(s1, s2, first, second) # Equal
             THEN [st EXCEPT !.equal = FALSE]
             ELSE IF FileTypeOn(s1, first) # S_IFDIR
             THEN [st EXCEPT !.maps = inserted,
                             !.equal = (LeafHandlerOn(s1, s2, first, second) = {Equal})]
             ELSE IF \/ ListFails(s1, first) \/ ListFails(s2, second)
                     \/ DirSizesDiffer(first_contents, second_contents)
                     \/ first_contents \ second_contents # {}
             THEN [st EXCEPT !.equal = FALSE]
             ELSE [st EXCEPT
                      !.maps = inserted,
                      !.pairs = [c \in {d \in ChildIds(p) : d[Len(d)] \in first_contents} |->
                                    [first |-> child_entry(s1, first, c[Len(c)]),
                                     second |-> child_entry(s2, second, c[Len(c)])]]
                                @@ st.pairs]

\* whether dirs() with side s1 as first and side s2 as second returns Equal
\* when one worker visits the entries in SeqOrder
SeqDirsEqual(s1, s2) ==
    LET run[i \in 0..Len(SeqOrder)] ==
            IF i = 0 THEN SeqInit(s1, s2) ELSE SeqVisit(run[i - 1], s1, s2, SeqOrder[i])
    IN  run[Len(SeqOrder)].equal

\* C19 (as claimed): dirs() on (A, B) returns Equal if and only if dirs() on
\* (B, A) returns Equal: any run on the two trees agrees, in returning Equal
\* or not, with the one-worker run on the trees swapped.
C19_SwapAgrees == DirsDone => ((DirsResult = Equal) <=> SeqDirsEqual(2, 1))

----------------------------------------------------------------------------
(* The chunk ranges contents_eq maps its indices to *)

\* the ranges contents_eq reads for the arguments in calc, which it calls
\* with limit = min(full_compare_limit, size) or size
CalcChunks ==
    [i \in 0 .. (calc.count - 1) |-> ChunkRangeOf(i, calc.leap, calc.size, calc.chunk_size)]

\* contents_eq got past size == 0 and computed both numbers
CalcFromContents == calc.pc = "done" /\ calc.size > 0 /\ calc.limit <= calc.size

\* C21: for every size > 0 and every limit, every chunk index below the chunk
\* count starts inside the file, and its range is non-empty, lies within
\* [0, size) and is at most one chunk long; the ranges are pairwise disjoint
\* when the limit is at least one chunk.
C21_ChunksInBounds ==
    CalcFromContents =>
        /\ \A i \in DOMAIN CalcChunks :
              /\ i * calc.leap < calc.size
              /\ CalcChunks[i].start = i * calc.leap
              /\ 0 <= CalcChunks[i].start
              /\ CalcChunks[i].start < CalcChunks[i].end
              /\ CalcChunks[i].end <= calc.size
              /\ CalcChunks[i].end - CalcChunks[i].start <= calc.chunk_size
        /\ (calc.limit >= calc.chunk_size \/ calc.limit = calc.size) =>
              \A i, j \in DOMAIN CalcChunks :
                 i < j => CalcChunks[i].end <= CalcChunks[j].start

\* sampling: three chunks or more, spread with a leap above the chunk size
C21_Witness ==
    /\ CalcFromContents
    /\ calc.count >= 3
    /\ calc.leap > calc.chunk_size
    /\ calc.limit < calc.size
    /\ calc.chunk_size >= 2

----------------------------------------------------------------------------
(* The offsets of the reads of contents_eq *)

\* the chunk closures that have issued their two read_exact_at calls
ChunksRead == {i \in DOMAIN chunks : chunks[i] # Pending}

\* C22 (as claimed): every read of a content comparison starts at a multiple
\* of BLOCK_SIZE, for every size and limit, sampled comparisons included.
C22_ReadsBlockAligned ==
    \A i \in ChunksRead :
       ChunkOf(i, cfg.full_compare_limit, csize).start % BLOCK_SIZE = 0

----------------------------------------------------------------------------
(* Termination of dirs() *)

\* the tasks inside the guarded block of entry_eq
InGuard == {t \in AllPaths : tasks[t].pc \in {"locked", "insert"}}

\* no task is left to run: each was never dispatched, returned, or was
\* dropped by find_any before it began
AllFinished == \A t \in AllPaths : tasks[t].pc \in {"none", "done", "skipped"}

\* dirs() has returned one result
Returned == DirsDone /\ DirsResult.kind \in {"Equal", "Unequal", "Err"}

\* C23: under fair scheduling dirs() terminates with exactly one result, which
\* then stays, and every dispatched task finishes; the mutex is held only
\* inside the guarded block of entry_eq, so it is released before a task fans
\* out to its children or waits for them, and it is free in the end.
C23_Terminates ==
    /\ <>[](Returned /\ AllFinished /\ mutex = {})
    /\ [](mutex \subseteq InGuard /\ Cardinality(mutex) <= 1)
    /\ [][DirsDone => (DirsDone' /\ DirsResult' = DirsResult)]_vars

\* both trees walked to the deepest level and every pair returned, after the
\* guard passed from task to task
C23_Witness ==
    /\ Returned
    /\ AllFinished
    /\ mutex = {}
    /\ tasks[PABF].pc = "done"
    /\ tasks[PAF].pc = "done"
    /\ tasks[PF].pc = "done"
    /\ DOMAIN inode_maps[1] # {}

============================================================================
